---- MODULE Spec2Model ----
(***************************************************************************)
(* State-machine model of src/LibCode.py: the dataset generator made of    *)
(* utama (scheduler), pekerja_gawe_data (worker), gawe_item_tunggal,       *)
(* panggil_api_together (model client), ekstrak_json_saka_string (parser), *)
(* validasi_data (validator) and gabung_file_data (merger).                *)
(*                                                                         *)
(* One worker step is one iteration of the worker's while loop.  Workers   *)
(* share no variable and write to their own directory only, so the steps   *)
(* of different workers interleave at iteration granularity without loss.  *)
(* The remote API, the storage and the random choices are the environment: *)
(* every step draws them from bounded sets.                                *)
(***************************************************************************)
EXTENDS Integers, Sequences, FiniteSets, TLC

\* ------------------------------------------------------------------ bounds
\* Largest JUMLAH_PEKERJA, UKURAN_DATASET and UKURAN_BATCH explored by Spec.
MaxPekerja == 2
MaxDataset == 2
MaxBatch == 2
\* Failed sessions a worker counts exactly; see sesi_gagal.
MaxGagal == 1
\* Distinct ids the remote model can put in its output.
NIds == 1

\* --------------------------------------------------------------- constants
\* panggil_api_together(prompt, ulang = 3)
ULANG == 3
\* time.sleep(5 * (nyoba + 1)) and time.sleep(10 * (nyoba + 1))
JEDA_KOSONG == 5
JEDA_GALAT == 10
\* len(skema['kolom']) of every schema of SKEMA_DATASET
JUMLAH_KOLOM == 10
\* winrate_nilai < 70
WINRATE_MINIMAL == 70

VARIABLES
    UKURAN_DATASET,        \* configuration: total quota
    JUMLAH_PEKERJA,        \* configuration: worker count
    UKURAN_BATCH,          \* configuration: batch size
    pc_utama,              \* position of utama
    tugas_pekerja,         \* utama: the (id, jumlah_item, UKURAN_BATCH) tuples
    kabeh_data_akumulasi,  \* utama: results collected from the workers
    dikumpul,              \* utama: workers whose future has been consumed
    pc,                    \* per worker: position of pekerja_gawe_data
    daftar_item,           \* per worker: accumulator
    item_diproses,         \* per worker: accepted since last checkpoint
    nomer_sesi,            \* per worker: session counter
    berkas,                \* per worker directory pekerja_<id>: batch files
    artefak,               \* files written directly in DIREKTORI_OUTPUT
    hasil_gabung,          \* return values of the calls of gabung_file_data
    uji                    \* argument and result of a function applied alone

vars == <<UKURAN_DATASET, JUMLAH_PEKERJA, UKURAN_BATCH, pc_utama, tugas_pekerja,
          kabeh_data_akumulasi, dikumpul, pc, daftar_item, item_diproses,
          nomer_sesi, berkas, artefak, hasil_gabung, uji>>

vars_pekerja == <<pc, daftar_item, item_diproses, nomer_sesi, berkas>>

vars_utama == <<pc_utama, tugas_pekerja, kabeh_data_akumulasi, dikumpul,
                artefak, hasil_gabung>>

vars_konfig == <<UKURAN_DATASET, JUMLAH_PEKERJA, UKURAN_BATCH>>

Min(a, b) == IF a <= b THEN a ELSE b

Max(a, b) == IF a >= b THEN a ELSE b

RECURSIVE Jumlah(_)
Jumlah(s) == IF s = <<>> THEN 0 ELSE Head(s) + Jumlah(Tail(s))

RECURSIVE Gabungan(_)
Gabungan(ss) == IF ss = <<>> THEN <<>> ELSE Head(ss) \o Gabungan(Tail(ss))

\* ------------------------------------------------------------------- values
\* An id is a pair.  <<0, k>> with k >= 1 is an id written by the remote model,
\* <<w, s>> with w >= 1 is the uuid4 drawn by worker w in session s.
IdTiada == <<0, -1>>
IdKosong == <<0, 0>>
IdModel == {<<0, k>> : k \in 1..NIds}

uuid4(w, s) == <<w, s>>

Truthy(id) == id # IdTiada /\ id # IdKosong

\* A winrate value as the model writes it.
WinTiada == [ada |-> FALSE, null |-> FALSE, angka |-> FALSE, nilai |-> 0]
WinNull == [ada |-> TRUE, null |-> TRUE, angka |-> FALSE, nilai |-> 0]
WinTeks == [ada |-> TRUE, null |-> FALSE, angka |-> FALSE, nilai |-> 0]
WinAngka(n) == [ada |-> TRUE, null |-> FALSE, angka |-> TRUE, nilai |-> n]

SKEMA_DATASET ==
    { [jenis |-> "strategi_scalping", kolom |-> JUMLAH_KOLOM],
      [jenis |-> "strategi_swing", kolom |-> JUMLAH_KOLOM],
      [jenis |-> "strategi_daytrading", kolom |-> JUMLAH_KOLOM],
      [jenis |-> "strategi_longterm", kolom |-> JUMLAH_KOLOM] }

JenisSkema == {s.jenis : s \in SKEMA_DATASET}

\* A decoded JSON object: its id, its winrate, how many of the schema's other
\* required fields it holds with a non-null value, its own 'jenis' field (or
\* "tiada"), and the two fields gawe_item_tunggal adds.  dict is FALSE for a
\* JSON value that is not an object (an element a batch file may hold).
Objek(id, winrate, lain, jenis) ==
    [dict |-> TRUE, id |-> id, winrate |-> winrate, lain |-> lain, jenis |-> jenis,
     tanggal_dibuat |-> <<0, 0>>, status_verifikasi |-> "tiada"]

\* The text accumulated from one streamed response:
\*   "kosong"     nothing but whitespace,
\*   "tanpa_json" no decodable JSON in it,
\*   "bukan_obj"  the brace substring does not decode, the whole text decodes
\*                to a JSON value that is not an object,
\*   "obj"        the brace substring decodes to the object obj.
Teks(bentuk, obj) == [bentuk |-> bentuk, obj |-> obj]

ObjKosong == Objek(IdTiada, WinTiada, 0, "tiada")

TeksKosong == Teks("kosong", ObjKosong)

\* One attempt's outcome: a streamed response or an exception with a message.
Respon(teks) == [jenis |-> "respon", teks |-> teks, pesan |-> "tiada"]

Galat(pesan) == [jenis |-> "galat", teks |-> TeksKosong, pesan |-> pesan]

\* ------------------------------------------------- the characters of a text
\* A text as the sequence of its lexical pieces:
\*   "{" "}"  the braces,
\*   "i"      the member "id": "a"        "e"  the member "id": "",
\*   "k"      a schema column with a scalar value,
\*   "n"      a schema column's key and colon, an object value follows,
\*   " "      whitespace,                 "x"  any other run of characters.
\* konten_teks = string_json.strip()
RECURSIVE strip(_)
strip(s) ==
    IF s = <<>> THEN <<>>
    ELSE IF Head(s) = " " THEN strip(Tail(s))
    ELSE IF s[Len(s)] = " " THEN strip(SubSeq(s, 1, Len(s) - 1))
    ELSE s

\* str.find and str.rfind, counted from 1; 0 where Python gives -1
find(s, c) ==
    IF \E i \in 1..Len(s) : s[i] = c
    THEN CHOOSE i \in 1..Len(s) : s[i] = c /\ \A j \in 1..(i - 1) : s[j] # c
    ELSE 0

rfind(s, c) ==
    IF \E i \in 1..Len(s) : s[i] = c
    THEN CHOOSE i \in 1..Len(s) : s[i] = c /\ \A j \in (i + 1)..Len(s) : s[j] # c
    ELSE 0

\* The text without its whitespace, which JSON allows between any two pieces.
RECURSIVE tanpa_spasi(_)
tanpa_spasi(s) ==
    IF s = <<>> THEN <<>>
    ELSE IF Head(s) = " " THEN tanpa_spasi(Tail(s))
    ELSE <<Head(s)>> \o tanpa_spasi(Tail(s))

\* The nesting depth after the first i pieces.
kedalaman(u, i) ==
    Cardinality({j \in 1..i : u[j] = "{"}) - Cardinality({j \in 1..i : u[j] = "}"})

\* json.loads succeeds on s with an object: one object from the first piece to
\* the last and nothing after it, every nested object the value of a key, every
\* key followed by its value, and nothing that is not JSON.
json_loads_ok(s) ==
    LET u == tanpa_spasi(s) IN
    /\ Len(u) >= 2
    /\ u[1] = "{"
    /\ u[Len(u)] = "}"
    /\ \A i \in 1..Len(u) : u[i] # "x"
    /\ \A i \in 1..(Len(u) - 1) : kedalaman(u, i) >= 1
    /\ kedalaman(u, Len(u)) = 0
    /\ \A i \in 1..Len(u) : u[i] = "n" => (i < Len(u) /\ u[i + 1] = "{")
    /\ \A i \in 2..Len(u) : u[i] = "{" => u[i - 1] = "n"

\* The object json.loads returns for a text it decodes: the members of the
\* outermost object; of two members of one key the later one counts.
json_loads(s) ==
    LET u == tanpa_spasi(s)
        luar == {i \in 2..Len(u) : kedalaman(u, i - 1) = 1}
        id_ne == {i \in luar : u[i] \in {"i", "e"}}
        pungkas == CHOOSE i \in id_ne : \A j \in id_ne : j <= i
    IN  Objek(IF id_ne = {} THEN IdTiada
              ELSE IF u[pungkas] = "i" THEN <<0, 1>> ELSE IdKosong,
              WinTiada,
              Cardinality({i \in luar : u[i] \in {"k", "n"}}),
              "tiada")

\* What ekstrak_json_saka_string makes of the text s: the substring from the
\* first "{" to the last "}" is decoded; the whole text is tried only when
\* that substring exists and does not decode.
bentuk_teks(s) ==
    LET konten_teks == strip(s)
        indeks_mulai == find(konten_teks, "{")
        indeks_pungkas == rfind(konten_teks, "}")
        json_potensial == SubSeq(konten_teks, indeks_mulai, indeks_pungkas)
    IN  IF konten_teks = <<>> THEN TeksKosong
        ELSE IF indeks_mulai # 0 /\ indeks_pungkas # 0 /\ indeks_pungkas > indeks_mulai
        THEN IF json_loads_ok(json_potensial) THEN Teks("obj", json_loads(json_potensial))
             ELSE IF json_loads_ok(konten_teks) THEN Teks("obj", json_loads(konten_teks))
             ELSE Teks("tanpa_json", ObjKosong)
        ELSE Teks("tanpa_json", ObjKosong)

\* ------------------------------------------------- panggil_api_together
PesanGalat == {"Authentication failed", "Invalid API key", "Connection timed out"}

\* "authentication" in str(e).lower() or "api key" in str(e).lower()
\* (galat_fatal_M: a client that takes no error for fatal)
galat_fatal_M(pesan) == FALSE
galat_fatal(pesan) == pesan \in {"Authentication failed", "Invalid API key"}

\* not respon_lengkap.strip()
\* (respon_kosong_M: a client that takes no text for empty)
respon_kosong_M(teks) == FALSE
respon_kosong(teks) == teks.bentuk = "kosong"

\* nyoba < ulang - 1
\* (masih_nyoba_M: a client that sleeps after its last attempt too)
masih_nyoba_M(nyoba, ulang) == TRUE
masih_nyoba(nyoba, ulang) == nyoba < ulang - 1

HasilApi(hasil, teks, permintaan, tunggu) ==
    [hasil |-> hasil, teks |-> teks, permintaan |-> permintaan, tunggu |-> tunggu]

\* The for loop from attempt number nyoba (0-based) on.  respon[k] is what the
\* k-th request of this call meets; tunggu collects the sleeps.  The result
\* tells how the call ends ("teks", "None" or "raise" for the
\* ConnectionAbortedError) and how many requests were issued.
RECURSIVE nyoba_api(_, _, _, _)
nyoba_api(respon, ulang, nyoba, tunggu) ==
    IF nyoba >= ulang
    THEN HasilApi("None", TeksKosong, nyoba, tunggu)
    ELSE LET r == respon[nyoba + 1] IN
         IF r.jenis = "respon"
         THEN IF respon_kosong(r.teks)
              THEN IF masih_nyoba(nyoba, ulang)
                   THEN nyoba_api(respon, ulang, nyoba + 1,
                                  Append(tunggu, JEDA_KOSONG * (nyoba + 1)))
                   ELSE HasilApi("None", TeksKosong, nyoba + 1, tunggu)
              ELSE HasilApi("teks", r.teks, nyoba + 1, tunggu)
         ELSE IF galat_fatal(r.pesan)
              THEN HasilApi("raise", TeksKosong, nyoba + 1, tunggu)
              ELSE IF masih_nyoba(nyoba, ulang)
                   THEN nyoba_api(respon, ulang, nyoba + 1,
                                  Append(tunggu, JEDA_GALAT * (nyoba + 1)))
                   ELSE HasilApi("None", TeksKosong, nyoba + 1, tunggu)

panggil_api_together(respon, ulang) == nyoba_api(respon, ulang, 0, <<>>)

\* --------------------------------------------- ekstrak_json_saka_string
\* The result is "obj" with the decoded object, "None", or "raise" when the
\* fallback decodes a value that takes no item assignment (TypeError).
ekstrak_json_saka_string(teks, id_baru) ==
    CASE teks.bentuk = "obj" ->
            [hasil |-> "obj",
             obj |-> IF Truthy(teks.obj.id) THEN teks.obj
                     ELSE [teks.obj EXCEPT !.id = id_baru]]
      [] teks.bentuk = "bukan_obj" -> [hasil |-> "raise", obj |-> ObjKosong]
      [] OTHER -> [hasil |-> "None", obj |-> ObjKosong]

\* ---------------------------------------------------------- validasi_data
\* not data: the empty dict
dict_kosong(data) ==
    /\ data.id = IdTiada
    /\ ~data.winrate.ada
    /\ data.lain = 0
    /\ data.jenis = "tiada"
    /\ data.status_verifikasi = "tiada"

\* sum(1 for kolom in kolom_perlu if kolom in data and data[kolom] is not None)
kolom_ana(data) ==
    (IF data.id # IdTiada THEN 1 ELSE 0)
    + (IF data.winrate.ada /\ ~data.winrate.null THEN 1 ELSE 0)
    + data.lain

\* max(2, int(len(kolom_perlu) * 0.7)): the product is a double, and int
\* truncates it; for n below 90 that is the exact floor of 7n/10.
minimal_kolom(n) == Max(2, (n * 7) \div 10)

\* float(str(data['winrate']).replace('%', '')) < 70, when it converts
winrate_kurang(winrate) == winrate.angka /\ winrate.nilai < WINRATE_MINIMAL

\* validasi_data with the module's SKEMA_DATASET as an argument.
validasi_skema(data, jenis_skema, skema) ==
    /\ ~dict_kosong(data)
    /\ \E s \in skema :
          /\ s.jenis = jenis_skema
          /\ Truthy(data.id)
          /\ kolom_ana(data) >= minimal_kolom(s.kolom)
          /\ ~(data.winrate.ada /\ winrate_kurang(data.winrate))

validasi_data(data, jenis_skema) == validasi_skema(data, jenis_skema, SKEMA_DATASET)

\* ------------------------------------------------------ gawe_item_tunggal
\* data_ekstrak and validasi_data(data_ekstrak, jenis_skema)
\* (item_diterima_M: acceptance without validation)
item_diterima_M(ekstrak, jenis_skema) == ekstrak.hasil = "obj"
item_diterima(ekstrak, jenis_skema) ==
    ekstrak.hasil = "obj" /\ validasi_data(ekstrak.obj, jenis_skema)

HasilItem(hasil, item) == [hasil |-> hasil, item |-> item]

\* jenis_skema is the schema gawe_prompt_variasi chose, respon what the
\* requests of panggil_api_together meet, id_baru the uuid4 and sekarang the
\* datetime.now() it would draw.  The result is "item", "None", "fatal" (the
\* ConnectionAbortedError) or "exception" (any other error).
gawe_item_tunggal(jenis_skema, respon, id_baru, sekarang) ==
    LET api == panggil_api_together(respon, ULANG)
        ekstrak == ekstrak_json_saka_string(api.teks, id_baru)
    IN  IF api.hasil = "raise" THEN HasilItem("fatal", ObjKosong)
        ELSE IF api.hasil = "None" THEN HasilItem("None", ObjKosong)
        ELSE IF ekstrak.hasil = "raise" THEN HasilItem("exception", ObjKosong)
        ELSE IF item_diterima(ekstrak, jenis_skema)
             THEN HasilItem("item",
                     [ekstrak.obj EXCEPT
                        !.jenis = IF @ = "tiada" THEN jenis_skema ELSE @,
                        !.tanggal_dibuat = sekarang,
                        !.status_verifikasi = "belum_diverifikasi"])
             ELSE HasilItem("None", ObjKosong)

\* ------------------------------------------------------ pekerja_gawe_data
Pekerja == 1..JUMLAH_PEKERJA

\* The jumlah_item of the task utama made for worker w (0 when it made none).
total_item(w) ==
    LET t == {k \in 1..Len(tugas_pekerja) : tugas_pekerja[k][1] = w}
    IN  IF t = {} THEN 0 ELSE tugas_pekerja[CHOOSE k \in t : TRUE][2]

\* while len(daftar_item) < total_item
\* (loop_lanjut_M: a loop that runs one item too far)
loop_lanjut_M(panjang, total) == panjang <= total
loop_lanjut(panjang, total) == panjang < total

\* item_diproses % UKURAN_BATCH == 0 or len(daftar_item) == total_item
\* (perlu_checkpoint_B: a trigger on a counter at or above the batch size)
perlu_checkpoint_B(diproses, panjang, total, batch) ==
    diproses >= batch \/ panjang = total
\* (perlu_checkpoint_M: a trigger without the quota test)
perlu_checkpoint_M(diproses, panjang, total, batch) == diproses % batch = 0
perlu_checkpoint(diproses, panjang, total, batch) ==
    diproses % batch = 0 \/ panjang = total

\* max(0, len(daftar_item) - item_diproses), the 0-based index of the first
\* record of the slice daftar_item[indeks_mulai:]
\* (indeks_mulai_M: a flush of the whole accumulator)
indeks_mulai_M(panjang, diproses) == 0
indeks_mulai(panjang, diproses) == Max(0, panjang - diproses)

\* A file's content as json.loads reads it back: a JSON array ("list"), a
\* single object ("dict"), whitespace only ("kosong") or undecodable ("rusak").
Konten(bentuk, item) == [bentuk |-> bentuk, item |-> item]

\* open(jeneng_file, 'w') and json.dump in directory content dir: a file of
\* the same name is replaced, otherwise the file is new.
tulis_berkas(dir, nama, konten) ==
    IF \E i \in 1..Len(dir) : dir[i].nama = nama
    THEN [i \in 1..Len(dir) |->
            IF dir[i].nama = nama THEN [nama |-> nama, konten |-> konten] ELSE dir[i]]
    ELSE Append(dir, [nama |-> nama, konten |-> konten])

\* Path(DIREKTORI_OUTPUT) / f"pekerja_{id_pekerja}": the directory is named
\* by the worker's id.
\* (direktori_pekerja_M: one directory for all workers)
direktori_pekerja_M(id_pekerja) == 1
direktori_pekerja(id_pekerja) == id_pekerja

\* Where the worker stands once the loop condition has been evaluated: at
\* the head of the next iteration, or returned.
pc_loop(panjang, total) == IF loop_lanjut(panjang, total) THEN "loop" ELSE "done"

\* item_diproses = 0 after the write, inside the try
\* (sawise_simpen_M: a counter that is not reset)
sawise_simpen_M(diproses) == diproses
sawise_simpen(diproses) == 0

\* except Exception around the write: "Gagal nyimpen batch" is printed and
\* the iteration goes on to the next test of the loop condition.
\* (gagal_simpen_M: a failed write that ends the worker)
gagal_simpen_M(panjang, total) == "raised"
gagal_simpen(panjang, total) == pc_loop(panjang, total)

\* pekerja_gawe_data up to the first test of the loop condition: mkdir and
\* the three locals.  A failing mkdir raises out of the function.
MulaiPekerja(w, mkdir_ok) ==
    /\ pc[w] = "antri"
    /\ pc' = [pc EXCEPT ![w] = IF mkdir_ok THEN pc_loop(0, total_item(w)) ELSE "raised"]
    /\ UNCHANGED <<daftar_item, item_diproses, nomer_sesi, berkas>>
    /\ UNCHANGED vars_utama
    /\ UNCHANGED vars_konfig
    /\ UNCHANGED uji

\* nomer_sesi after a session that accepted nothing.  The code's counter
\* grows without bound; here the failed sessions of a worker are counted
\* exactly up to MaxGagal and modulo 2 beyond, so that a worker that fails
\* for ever is a cycle.  gagal is the number of failed sessions counted so far.
sesi_gagal(sesi, panjang) ==
    IF sesi - panjang > MaxGagal + 1 THEN sesi - 2 ELSE sesi

\* Whether this session's number is exact enough to name a file: a session
\* that follows an odd number of uncounted failures accepts nothing.
sesi_tepat(sesi, panjang) == sesi - 1 - panjang <= MaxGagal

\* One iteration of the while loop, up to the next test of its condition.
\* jenis_skema and respon are the inputs of gawe_item_tunggal, tulis_ok says
\* whether the checkpoint write succeeds.
Iterasi(w, jenis_skema, respon, tulis_ok) ==
    /\ pc[w] = "loop"
    /\ LET sesi == nomer_sesi[w] + 1
           g == gawe_item_tunggal(jenis_skema, respon, uuid4(w, sesi), <<w, sesi>>)
           daftar == Append(daftar_item[w], g.item)
           diproses == item_diproses[w] + 1
           item_disimpen == SubSeq(daftar, indeks_mulai(Len(daftar), diproses) + 1,
                                   Len(daftar))
           simpen == /\ perlu_checkpoint(diproses, Len(daftar), total_item(w), UKURAN_BATCH)
                     /\ item_disimpen # <<>>
       IN  CASE g.hasil = "item" ->
                  /\ sesi_tepat(sesi, Len(daftar_item[w]))
                  /\ daftar_item' = [daftar_item EXCEPT ![w] = daftar]
                  /\ item_diproses' = [item_diproses EXCEPT ![w] =
                                         IF simpen /\ tulis_ok
                                         THEN sawise_simpen(diproses) ELSE diproses]
                  /\ berkas' = [berkas EXCEPT ![direktori_pekerja(w)] =
                                  IF simpen /\ tulis_ok
                                  THEN tulis_berkas(@, sesi, Konten("list", item_disimpen))
                                  ELSE @]
                  /\ nomer_sesi' = [nomer_sesi EXCEPT ![w] = sesi]
                  /\ pc' = [pc EXCEPT ![w] =
                              IF simpen /\ ~tulis_ok
                              THEN gagal_simpen(Len(daftar), total_item(w))
                              ELSE pc_loop(Len(daftar), total_item(w))]
             [] g.hasil = "fatal" ->
                  /\ pc' = [pc EXCEPT ![w] = "aborted"]
                  /\ nomer_sesi' = [nomer_sesi EXCEPT ![w] = sesi]
                  /\ UNCHANGED <<daftar_item, item_diproses, berkas>>
             [] OTHER ->
                  /\ nomer_sesi' = [nomer_sesi EXCEPT ![w] =
                                      sesi_gagal(sesi, Len(daftar_item[w]))]
                  /\ pc' = [pc EXCEPT ![w] = pc_loop(Len(daftar_item[w]), total_item(w))]
                  /\ UNCHANGED <<daftar_item, item_diproses, berkas>>
    /\ UNCHANGED vars_utama
    /\ UNCHANGED vars_konfig
    /\ UNCHANGED uji

\* ------------------------------------------------------- gabung_file_data
\* The paths under DIREKTORI_OUTPUT: <<0, i>> is the i-th file written in the
\* directory itself, <<w, i>> the i-th file of the directory pekerja_<w>.
Jalur ==
    {<<0, i>> : i \in 1..Len(artefak)}
    \cup UNION {{<<w, i>> : i \in 1..Len(berkas[w])} : w \in DOMAIN berkas}

\* jalur_output.glob("pekerja_*/*.json")
glob_pekerja == {p \in Jalur : p[1] >= 1}

baca(p) == IF p[1] = 0 THEN artefak[p[2]].konten ELSE berkas[p[1]][p[2]].konten

\* The items one file adds to kabeh_data.
data_batch(konten) ==
    CASE konten.bentuk = "list" -> konten.item
      [] konten.bentuk = "dict" -> <<konten.item[1]>>
      [] OTHER -> <<>>

\* The loop over file_json; a file that cannot be read or decoded is skipped.
\* (baca_semua_M: a loop that gives up at the first undecodable file)
RECURSIVE baca_semua_M(_)
baca_semua_M(file_json) ==
    IF file_json = <<>> THEN <<>>
    ELSE IF baca(Head(file_json)).bentuk = "rusak" THEN <<>>
    ELSE data_batch(baca(Head(file_json))) \o baca_semua_M(Tail(file_json))

RECURSIVE baca_semua(_)
baca_semua(file_json) ==
    IF file_json = <<>> THEN <<>>
    ELSE data_batch(baca(Head(file_json))) \o baca_semua(Tail(file_json))

\* isinstance(item, dict) and 'id' in item and item['id']
punya_id(item) == item.dict /\ Truthy(item.id)

\* data_unik[item['id']] = item over kabeh_data, then list(data_unik.values()):
\* a key keeps the position of its first assignment and the value of its last.
\* (data_unik_M: a key keeps the value of its first assignment)
RECURSIVE data_unik_M(_, _)
data_unik_M(kabeh_data, unik) ==
    IF kabeh_data = <<>> THEN unik
    ELSE LET item == Head(kabeh_data) IN
         data_unik_M(Tail(kabeh_data),
            IF ~punya_id(item) THEN unik
            ELSE IF \E i \in 1..Len(unik) : unik[i].id = item.id
                 THEN unik
                 ELSE Append(unik, item))

RECURSIVE data_unik(_, _)
data_unik(kabeh_data, unik) ==
    IF kabeh_data = <<>> THEN unik
    ELSE LET item == Head(kabeh_data) IN
         data_unik(Tail(kabeh_data),
            IF ~punya_id(item) THEN unik
            ELSE IF \E i \in 1..Len(unik) : unik[i].id = item.id
                 THEN [i \in 1..Len(unik) |->
                         IF unik[i].id = item.id THEN item ELSE unik[i]]
                 ELSE Append(unik, item))

\* file_json is list(glob) in the order the file system enumerates it, tulis_ok
\* whether the artifact is written.  Returns through hasil_gabung.
gabung_file_data(file_json, tulis_ok) ==
    LET kabeh_data == baca_semua(file_json)
        daftar_data_final == data_unik(kabeh_data, <<>>)
        kosong == file_json = <<>> \/ kabeh_data = <<>>
        data == IF kosong THEN <<>> ELSE daftar_data_final
        nama == IF kosong THEN "kosong" ELSE "final"
    IN  /\ artefak' = IF tulis_ok
                      THEN Append(artefak, [nama |-> nama, konten |-> Konten("list", data)])
                      ELSE artefak
        /\ hasil_gabung' = Append(hasil_gabung,
                                  [data |-> data, jalur |-> nama, file_json |-> file_json])

RECURSIVE SetToSeq(_)
SetToSeq(S) ==
    IF S = {} THEN <<>>
    ELSE LET x == CHOOSE y \in S : TRUE IN <<x>> \o SetToSeq(S \ {x})

\* Every order in which the file system may enumerate the files of S.
Urutan(S) ==
    LET q == SetToSeq(S)
    IN  {[i \in 1..Len(q) |-> q[f[i]]] : f \in Permutations(1..Len(q))}

\* ------------------------------------------------------------------ utama
\* item_per_pekerja + (1 if i < item_sisa else 0), i counted from 0
\* (jumlah_item_M: the extra item handed to one worker too many)
jumlah_item_M(i, dataset, pekerja) ==
    dataset \div pekerja + (IF i <= dataset % pekerja THEN 1 ELSE 0)
jumlah_item(i, dataset, pekerja) ==
    dataset \div pekerja + (IF i < dataset % pekerja THEN 1 ELSE 0)

\* The tasks utama starts: the pool's when JUMLAH_PEKERJA > 1, else the one
\* inline call pekerja_gawe_data(1, UKURAN_DATASET, UKURAN_BATCH).
gawe_tugas(dataset, pekerja, batch) ==
    IF pekerja > 1
    THEN SelectSeq([k \in 1..pekerja |-> <<k, jumlah_item(k - 1, dataset, pekerja), batch>>],
                   LAMBDA t : t[2] > 0)
    ELSE IF dataset > 0 THEN <<<<1, dataset, batch>>>> ELSE <<>>

IdTugas == {tugas_pekerja[k][1] : k \in 1..Len(tugas_pekerja)}

\* utama up to executor.submit (or to the inline call).
Mulai ==
    /\ pc_utama = "mulai"
    /\ tugas_pekerja' = gawe_tugas(UKURAN_DATASET, JUMLAH_PEKERJA, UKURAN_BATCH)
    /\ pc' = [w \in Pekerja |->
                IF \E k \in 1..Len(tugas_pekerja') : tugas_pekerja'[k][1] = w
                THEN "antri" ELSE pc[w]]
    /\ pc_utama' = "jalan"
    /\ UNCHANGED <<kabeh_data_akumulasi, dikumpul, artefak, hasil_gabung>>
    /\ UNCHANGED <<daftar_item, item_diproses, nomer_sesi, berkas>>
    /\ UNCHANGED vars_konfig
    /\ UNCHANGED uji

\* future.result() of a worker that raised
\* (kumpul_raised_M: the exception ends utama)
kumpul_raised_M(w) == pc_utama' = "gagal" /\ UNCHANGED <<kabeh_data_akumulasi, dikumpul>>
kumpul_raised(w) ==
    /\ dikumpul' = dikumpul \cup {w}
    /\ UNCHANGED <<pc_utama, kabeh_data_akumulasi>>

\* One turn of the as_completed loop (or the return of the inline call): the
\* result of a worker that has ended is added, an exception is logged.
Kumpul(w) ==
    /\ pc_utama = "jalan"
    /\ w \in IdTugas \ dikumpul
    /\ pc[w] \in {"done", "aborted", "raised"}
    /\ IF pc[w] = "raised"
       THEN kumpul_raised(w)
       ELSE /\ kabeh_data_akumulasi' = kabeh_data_akumulasi \o daftar_item[w]
            /\ dikumpul' = dikumpul \cup {w}
            /\ UNCHANGED pc_utama
    /\ UNCHANGED <<tugas_pekerja, artefak, hasil_gabung>>
    /\ UNCHANGED vars_pekerja
    /\ UNCHANGED vars_konfig
    /\ UNCHANGED uji

\* The as_completed loop has yielded every future and the with block of the
\* executor is left (inline: the call has returned or raised).
\* (pool_rampung_M: an executor left without waiting)
pool_rampung_M == TRUE
pool_rampung == IdTugas \subseteq dikumpul

\* The pool is left: "Kabeh proses generasi data wis rampung", then the
\* test UKURAN_DATASET > 0.
GenerasiRampung ==
    /\ pc_utama = "jalan"
    /\ pool_rampung
    /\ pc_utama' = IF UKURAN_DATASET > 0 THEN "gabung" ELSE "rampung"
    /\ UNCHANGED <<tugas_pekerja, kabeh_data_akumulasi, dikumpul, artefak, hasil_gabung>>
    /\ UNCHANGED vars_pekerja
    /\ UNCHANGED vars_konfig
    /\ UNCHANGED uji

\* data_final, jalur_file_final = gabung_file_data(), then the upload notice.
Gabung(file_json, tulis_ok) ==
    /\ pc_utama = "gabung"
    /\ gabung_file_data(file_json, tulis_ok)
    /\ pc_utama' = "rampung"
    /\ UNCHANGED <<tugas_pekerja, kabeh_data_akumulasi, dikumpul>>
    /\ UNCHANGED vars_pekerja
    /\ UNCHANGED vars_konfig
    /\ UNCHANGED uji

\* gabung_file_data() called once more over the same output directory, after
\* utama has returned.
GabungLagi(file_json, tulis_ok) ==
    /\ pc_utama = "rampung"
    /\ Len(hasil_gabung) = 1
    /\ gabung_file_data(file_json, tulis_ok)
    /\ UNCHANGED <<pc_utama, tugas_pekerja, kabeh_data_akumulasi, dikumpul>>
    /\ UNCHANGED vars_pekerja
    /\ UNCHANGED vars_konfig
    /\ UNCHANGED uji

\* ------------------------------------------------------------- environment
ObjSah(id) == Objek(id, WinAngka(WINRATE_MINIMAL), JUMLAH_KOLOM - 2, "tiada")

\* The texts the remote model answers with: valid objects with and without
\* an id of their own, an object one field short of the threshold, one with
\* a winrate under the minimum, and the three texts that yield no object.
TeksModel ==
    {Teks("obj", ObjSah(id)) : id \in IdModel \cup {IdTiada}}
    \cup { Teks("obj", Objek(IdTiada, WinTiada, minimal_kolom(JUMLAH_KOLOM) - 2, "tiada")),
           Teks("obj", Objek(IdTiada, WinAngka(WINRATE_MINIMAL - 1), JUMLAH_KOLOM - 2, "tiada")),
           Teks("tanpa_json", ObjKosong),
           Teks("bukan_obj", ObjKosong),
           TeksKosong }

ResponModel == {Respon(t) : t \in TeksModel} \cup {Galat(p) : p \in PesanGalat}

\* What the three requests of one call meet: r at once, or r after one or two
\* retryable failures.
RentetanRespon(R) ==
    {<<c, c, c>> : c \in R}
    \cup {<<Respon(TeksKosong), c, c>> : c \in R}
    \cup {<<Galat("Connection timed out"), Respon(TeksKosong), c>> : c \in R}

SkemaDipilih == {"strategi_scalping"}

\* ------------------------------------------------------------ specification
\* The configurations explored: a batch size above the largest share of the
\* quota behaves as one equal to it (the quota test fires first), so the batch
\* sizes run up to the largest share.
InitKonfig(D, P, B) ==
    /\ UKURAN_DATASET \in D
    /\ JUMLAH_PEKERJA \in P
    /\ UKURAN_BATCH \in B
    /\ UKURAN_BATCH <= Max(1, jumlah_item(0, UKURAN_DATASET, JUMLAH_PEKERJA))

InitProses ==
    /\ pc_utama = "mulai"
    /\ tugas_pekerja = <<>>
    /\ kabeh_data_akumulasi = <<>>
    /\ dikumpul = {}
    /\ pc = [w \in Pekerja |-> "belum"]
    /\ daftar_item = [w \in Pekerja |-> <<>>]
    /\ item_diproses = [w \in Pekerja |-> 0]
    /\ nomer_sesi = [w \in Pekerja |-> 0]
    /\ berkas = [w \in Pekerja |-> <<>>]
    /\ artefak = <<>>
    /\ hasil_gabung = <<>>

Init ==
    /\ InitKonfig(0..MaxDataset, 1..MaxPekerja, 1..MaxBatch)
    /\ InitProses
    /\ uji = <<>>

Next ==
    \/ Mulai
    \/ \E w \in Pekerja, mkdir_ok \in BOOLEAN : MulaiPekerja(w, mkdir_ok)
    \/ \E w \in Pekerja, j \in SkemaDipilih, r \in RentetanRespon(ResponModel),
          tulis_ok \in BOOLEAN : Iterasi(w, j, r, tulis_ok)
    \/ \E w \in Pekerja : Kumpul(w)
    \/ GenerasiRampung
    \/ \E f \in Urutan(glob_pekerja), tulis_ok \in BOOLEAN : Gabung(f, tulis_ok)

Spec == Init /\ [][Next]_vars

\* One worker alone: the inline call of utama.
InitSatu ==
    /\ InitKonfig(0..MaxDataset, {1}, 1..MaxBatch)
    /\ InitProses
    /\ uji = <<>>

SpecSatu == InitSatu /\ [][Next]_vars

\* The partition alone: utama's first step over a wider range of quotas and
\* worker counts.
MaxDatasetPartisi == 12
MaxPekerjaPartisi == 5

InitPartisi ==
    /\ InitKonfig(0..MaxDatasetPartisi, 1..MaxPekerjaPartisi, {1})
    /\ InitProses
    /\ uji = <<>>

SpecPartisi == InitPartisi /\ [][Mulai]_vars

\* panggil_api_together alone: one call, with any number of attempts and any
\* outcomes of its requests.
MaxUlang == 3

ResponApi ==
    { Respon(TeksKosong),
      Respon(Teks("tanpa_json", ObjKosong)),
      Respon(Teks("obj", ObjSah(IdTiada))) }
    \cup {Galat(p) : p \in PesanGalat}

\* A call that is still to be made.
MasukanApi(respon, ulang) ==
    [respon |-> respon, ulang |-> ulang, selesai |-> FALSE,
     hasil |-> HasilApi("belum", TeksKosong, 0, <<>>)]

InitApi ==
    /\ InitKonfig({0}, {1}, {1})
    /\ InitProses
    /\ \E r \in [1..MaxUlang -> ResponApi], u \in 0..MaxUlang :
          uji = MasukanApi(r, u)

PanggilApi ==
    /\ ~uji.selesai
    /\ uji' = [uji EXCEPT !.selesai = TRUE,
                          !.hasil = panggil_api_together(uji.respon, uji.ulang)]
    /\ UNCHANGED vars_utama
    /\ UNCHANGED vars_pekerja
    /\ UNCHANGED vars_konfig

SpecApi == InitApi /\ [][PanggilApi]_vars

\* gabung_file_data alone, over directories that hold any files: up to
\* MaxItemUji items are laid out over the worker directories, one file each.
MaxItemUji == 2
NIdUji == 2

IdUji == {<<0, k>> : k \in 1..NIdUji}
IdBukanDict == <<0, -2>>

\* What an element of a file's array is: a record with one of the ids, a
\* record without 'id', a record with an empty id, a value that is no object.
JenisItemUji == IdUji \cup {IdTiada, IdKosong, IdBukanDict}

\* The element of kind jenis at position i of the layout, in directory w.
\* Records are told apart by their tanggal_dibuat.
ItemUji(jenis, w, i) ==
    IF jenis = IdBukanDict
    THEN [ObjKosong EXCEPT !.dict = FALSE]
    ELSE [Objek(jenis, WinAngka(WINRATE_MINIMAL), JUMLAH_KOLOM - 2, "strategi_scalping")
            EXCEPT !.tanggal_dibuat = <<w, i>>,
                   !.status_verifikasi = "belum_diverifikasi"]

\* The ways to lay n items out over the directories, in order.
Pembagian(n) ==
    {c \in [1..n -> Pekerja] : \A i \in 1..(n - 1) : c[i] <= c[i + 1]}

\* The items of layout s, c that fall in directory w.
BagianUji(s, c, w) ==
    LET idx == {i \in 1..Len(s) : c[i] = w}
        awal == IF idx = {} THEN 0 ELSE CHOOSE i \in idx : \A j \in idx : i <= j
    IN  [k \in 1..Cardinality(idx) |-> ItemUji(s[awal + k - 1], w, awal + k - 1)]

\* The directory contents that give a merger these items: no items is no
\* file, a file of an empty array, a blank file or an undecodable one; one
\* record is an array or a bare object; otherwise an array.
PilihanUji(bagian) ==
    LET satu(k) == <<[nama |-> 1, konten |-> k]>>
    IN  IF bagian = <<>>
        THEN << <<>>, satu(Konten("list", <<>>)), satu(Konten("kosong", <<>>)),
                satu(Konten("rusak", <<>>)) >>
        ELSE IF Len(bagian) = 1 /\ bagian[1].dict
             THEN << satu(Konten("list", bagian)), satu(Konten("dict", bagian)) >>
             ELSE << satu(Konten("list", bagian)) >>

InitGabung ==
    /\ InitKonfig({1}, {MaxPekerja}, {1})
    /\ pc_utama = "gabung"
    /\ tugas_pekerja = <<>>
    /\ kabeh_data_akumulasi = <<>>
    /\ dikumpul = {}
    /\ pc = [w \in Pekerja |-> "belum"]
    /\ daftar_item = [w \in Pekerja |-> <<>>]
    /\ item_diproses = [w \in Pekerja |-> 0]
    /\ nomer_sesi = [w \in Pekerja |-> 0]
    /\ artefak = <<>>
    /\ hasil_gabung = <<>>
    /\ uji = <<>>
    /\ \E s \in UNION {[1..n -> JenisItemUji] : n \in 0..MaxItemUji} :
          \E c \in Pembagian(Len(s)) :
             \E g \in [Pekerja -> 1..4] :
                /\ \A w \in Pekerja : g[w] <= Len(PilihanUji(BagianUji(s, c, w)))
                /\ berkas = [w \in Pekerja |-> PilihanUji(BagianUji(s, c, w))[g[w]]]

NextGabung ==
    \/ \E f \in Urutan(glob_pekerja) : Gabung(f, TRUE)
    \/ \E f \in Urutan(glob_pekerja) : GabungLagi(f, TRUE)

SpecGabung == InitGabung /\ [][NextGabung]_vars

\* Scenario A: a run from an empty output directory in which no directory
\* creation and no checkpoint write fails, no request meets an authentication
\* error and every record gets its id from uuid4.  Sessions may still fail.
MaxDatasetA == 6
MaxPekerjaA == 3

ResponA == {Respon(Teks("obj", ObjSah(IdTiada))), Respon(Teks("tanpa_json", ObjKosong))}

InitA ==
    /\ InitKonfig(0..MaxDatasetA, 1..MaxPekerjaA, 1..MaxBatch)
    /\ InitProses
    /\ uji = <<>>

NextA ==
    \/ Mulai
    \/ \E w \in Pekerja : MulaiPekerja(w, TRUE)
    \/ \E w \in Pekerja, j \in SkemaDipilih, r \in RentetanRespon(ResponA) :
          Iterasi(w, j, r, TRUE)
    \/ \E w \in Pekerja : Kumpul(w)
    \/ GenerasiRampung
    \/ \E f \in Urutan(glob_pekerja) : Gabung(f, TRUE)

SpecA == InitA /\ [][NextA]_vars

\* Spec under the scheduling the code relies on: utama runs on, and every
\* worker thread of the pool is given the processor again and again.
AdilPekerja(w) ==
    /\ WF_vars(\E mkdir_ok \in BOOLEAN : w \in Pekerja /\ MulaiPekerja(w, mkdir_ok))
    /\ WF_vars(\E j \in SkemaDipilih, r \in RentetanRespon(ResponModel),
                  tulis_ok \in BOOLEAN : w \in Pekerja /\ Iterasi(w, j, r, tulis_ok))
    /\ WF_vars(w \in Pekerja /\ Kumpul(w))

AdilUtama ==
    /\ WF_vars(Mulai)
    /\ WF_vars(GenerasiRampung)
    /\ WF_vars(\E f \in Urutan(glob_pekerja), tulis_ok \in BOOLEAN : Gabung(f, tulis_ok))

SpecAdil == Spec /\ AdilUtama /\ \A w \in 1..MaxPekerja : AdilPekerja(w)

\* validasi_data alone, under any configured schema: a schema of n columns
\* holds 'id', 'winrate' and n - 2 others, as the four of SKEMA_DATASET do.
MaxKolom == 10

WinrateUji ==
    {WinTiada, WinNull, WinTeks, WinAngka(WINRATE_MINIMAL - 1), WinAngka(WINRATE_MINIMAL)}

InitValidasi ==
    /\ InitKonfig({0}, {1}, {1})
    /\ InitProses
    /\ \E n \in 2..MaxKolom, id \in {IdTiada, IdKosong, <<0, 1>>}, wr \in WinrateUji,
          j \in {"strategi_scalping", "strategi_swing"} :
          \E lain \in 0..(n - 2) :
             uji = [data |-> Objek(id, wr, lain, "tiada"),
                    jenis_skema |-> j,
                    skema |-> {[jenis |-> "strategi_scalping", kolom |-> n]},
                    selesai |-> FALSE, hasil |-> FALSE]

PanggilValidasi ==
    /\ ~uji.selesai
    /\ uji' = [uji EXCEPT !.selesai = TRUE,
                          !.hasil = validasi_skema(uji.data, uji.jenis_skema, uji.skema)]
    /\ UNCHANGED vars_utama
    /\ UNCHANGED vars_pekerja
    /\ UNCHANGED vars_konfig

SpecValidasi == InitValidasi /\ [][PanggilValidasi]_vars

\* ekstrak_json_saka_string alone, on a JSON object between two pieces of prose.
MaxProsa == 2

Prosa ==
    UNION {[1..n -> {"x", " ", "{", "}"}] : n \in 0..MaxProsa}

ObjekTeks ==
    {<<"{">> \o a \o b \o c \o <<"}">> :
        a \in {<<>>, <<"i">>, <<"e">>},
        b \in {<<>>, <<"k">>, <<"k", " ", "k">>},
        c \in {<<>>, <<"n", "{", "k", "}">>}}

InitEkstrak ==
    /\ InitKonfig({0}, {1}, {1})
    /\ InitProses
    /\ \E awal \in Prosa, O \in ObjekTeks, akhir \in Prosa :
          uji = [awal |-> awal, O |-> O, akhir |-> akhir, selesai |-> FALSE,
                 hasil |-> [hasil |-> "None", obj |-> ObjKosong]]

PanggilEkstrak ==
    /\ ~uji.selesai
    /\ uji' = [uji EXCEPT !.selesai = TRUE,
                  !.hasil = ekstrak_json_saka_string(
                                bentuk_teks(uji.awal \o uji.O \o uji.akhir), uuid4(1, 1))]
    /\ UNCHANGED vars_utama
    /\ UNCHANGED vars_pekerja
    /\ UNCHANGED vars_konfig

SpecEkstrak == InitEkstrak /\ [][PanggilEkstrak]_vars

\* One worker with a quota of several batches, whose writes may fail.
MaxDatasetSimpen == 5

InitSimpen ==
    /\ InitKonfig(0..MaxDatasetSimpen, {1}, 1..MaxBatch)
    /\ InitProses
    /\ uji = <<>>

NextSimpen ==
    \/ Mulai
    \/ \E w \in Pekerja : MulaiPekerja(w, TRUE)
    \/ \E w \in Pekerja, j \in SkemaDipilih, r \in RentetanRespon(ResponA),
          tulis_ok \in BOOLEAN : Iterasi(w, j, r, tulis_ok)
    \/ \E w \in Pekerja : Kumpul(w)
    \/ GenerasiRampung
    \/ \E f \in Urutan(glob_pekerja) : Gabung(f, TRUE)

SpecSimpen == InitSimpen /\ [][NextSimpen]_vars

\* gawe_item_tunggal alone: any schema chosen for the prompt, and an answer
\* that may bring fields of the names gawe_item_tunggal adds.
ObjekItem ==
    {[Objek(id, wr, JUMLAH_KOLOM - 2, jenis) EXCEPT !.status_verifikasi = status,
                                                    !.tanggal_dibuat = tanggal] :
        id \in {IdTiada, <<0, 1>>},
        wr \in {WinAngka(WINRATE_MINIMAL - 1), WinAngka(WINRATE_MINIMAL)},
        jenis \in {"tiada", "lain"} \cup JenisSkema,
        status \in {"tiada", "terverifikasi"},
        tanggal \in {<<0, 0>>, <<0, 9>>}}

InitItem ==
    /\ InitKonfig({0}, {1}, {1})
    /\ InitProses
    /\ \E j \in JenisSkema, obj \in ObjekItem :
          uji = [jenis_skema |-> j, obj |-> obj, selesai |-> FALSE,
                 hasil |-> HasilItem("belum", ObjKosong)]

PanggilItem ==
    /\ ~uji.selesai
    /\ \E r \in RentetanRespon({Respon(Teks("obj", uji.obj))}) :
          uji' = [uji EXCEPT !.selesai = TRUE,
                     !.hasil = gawe_item_tunggal(uji.jenis_skema, r, uuid4(1, 1), <<1, 1>>)]
    /\ UNCHANGED vars_utama
    /\ UNCHANGED vars_pekerja
    /\ UNCHANGED vars_konfig

SpecItem == InitItem /\ [][PanggilItem]_vars

\* ------------------------------------------------------------------ claims
RECURSIVE JumlahBagian(_)
JumlahBagian(w) == IF w = 0 THEN 0 ELSE total_item(w) + JumlahBagian(w - 1)

\* C1: once utama has made its tasks, the quotas handed to the workers sum to
\* UKURAN_DATASET, the tasks carry distinct worker ids and no zero quota, any
\* two workers' shares (0 for a worker that is not started) differ by at most
\* 1, and the first T mod W workers hold T div W + 1, the others T div W.
C1_PartisiTepat ==
    pc_utama # "mulai" =>
        /\ JumlahBagian(JUMLAH_PEKERJA) = UKURAN_DATASET
        /\ Jumlah([k \in 1..Len(tugas_pekerja) |-> tugas_pekerja[k][2]]) = UKURAN_DATASET
        /\ \A k \in 1..Len(tugas_pekerja) :
              /\ tugas_pekerja[k][1] \in Pekerja
              /\ tugas_pekerja[k][2] > 0
              /\ \A l \in 1..Len(tugas_pekerja) :
                    tugas_pekerja[k][1] = tugas_pekerja[l][1] => k = l
        /\ \A v, w \in Pekerja :
              /\ total_item(v) - total_item(w) <= 1
              /\ total_item(w) - total_item(v) <= 1
        /\ \A w \in Pekerja :
              total_item(w) = (UKURAN_DATASET \div JUMLAH_PEKERJA)
                  + (IF w <= UKURAN_DATASET % JUMLAH_PEKERJA THEN 1 ELSE 0)

\* An uneven partition over several workers has been made.
C1_Saksi ==
    /\ pc_utama = "jalan"
    /\ JUMLAH_PEKERJA > 1
    /\ UKURAN_DATASET > JUMLAH_PEKERJA
    /\ UKURAN_DATASET % JUMLAH_PEKERJA # 0
    /\ Len(tugas_pekerja) = JUMLAH_PEKERJA

\* C2: in every iteration of a worker's loop the accumulator grows, by exactly
\* the one parsed record, if and only if the call returned text, the parse
\* returned an object and validasi_data accepted it for the schema chosen for
\* the prompt; any other iteration leaves the accumulator and the counter of
\* items accepted since the last checkpoint as they were, and unless the call
\* raised the fatal error the worker is back at the head of its loop.
C2_HanyaItemSahDihitung ==
    [][\A w \in Pekerja, j \in SkemaDipilih, r \in RentetanRespon(ResponModel),
          tulis_ok \in BOOLEAN :
          Iterasi(w, j, r, tulis_ok) =>
             LET api == panggil_api_together(r, ULANG)
                 e == ekstrak_json_saka_string(api.teks, uuid4(w, nomer_sesi[w] + 1))
                 sah == /\ api.hasil = "teks"
                        /\ e.hasil = "obj"
                        /\ validasi_data(e.obj, j)
             IN  IF sah
                 THEN /\ Len(daftar_item'[w]) = Len(daftar_item[w]) + 1
                      /\ SubSeq(daftar_item'[w], 1, Len(daftar_item[w])) = daftar_item[w]
                      /\ daftar_item'[w][Len(daftar_item'[w])].id = e.obj.id
                 ELSE /\ daftar_item'[w] = daftar_item[w]
                      /\ item_diproses'[w] = item_diproses[w]
                      /\ api.hasil # "raise" => pc'[w] = "loop"]_vars

\* A worker that has accepted an item and has had a failed session is still
\* looping.
C2_Saksi ==
    \E w \in Pekerja :
       /\ pc[w] = "loop"
       /\ Len(daftar_item[w]) > 0
       /\ nomer_sesi[w] > Len(daftar_item[w])

\* C3: the accumulator never exceeds the quota, a worker at the head of its
\* loop is below its quota, a worker that left the loop through its condition
\* returns exactly its quota, and a worker that returned fewer records left
\* through the fatal-error path.
C3_BerhentiDiKuota ==
    \A w \in Pekerja :
       /\ Len(daftar_item[w]) <= total_item(w)
       /\ pc[w] = "loop" => Len(daftar_item[w]) < total_item(w)
       /\ pc[w] = "done" => Len(daftar_item[w]) = total_item(w)
       /\ (pc[w] \in {"done", "aborted"} /\ Len(daftar_item[w]) < total_item(w))
             => pc[w] = "aborted"

\* One worker has returned its whole quota after a failed session while
\* another returned less through the fatal error.
C3_Saksi ==
    \E v, w \in Pekerja :
       /\ pc[v] = "done"
       /\ nomer_sesi[v] > total_item(v)
       /\ pc[w] = "aborted"
       /\ Len(daftar_item[w]) < total_item(w)

PesanOtentikasi == {"Authentication failed", "Invalid API key"}

\* A request that met an empty response or an error that is not an
\* authentication error.
GagalBiasa(x) ==
    \/ x.jenis = "respon" /\ x.teks.bentuk = "kosong"
    \/ x.jenis = "galat" /\ x.pesan \notin PesanOtentikasi

\* Request k of the call is the one that meets an authentication error.
OtentikasiPada(r, k) ==
    /\ r[k].jenis = "galat"
    /\ r[k].pesan \in PesanOtentikasi
    /\ \A i \in 1..(k - 1) : GagalBiasa(r[i])

\* C4: when request k of a call (k = 1, 2 or 3) meets an authentication
\* error, the call issues no request after it and ends by raising, not with
\* "no result"; the worker leaves its loop in that step with its accumulator
\* and its files as they were; and a worker that has left through the fatal
\* error never runs a session (hence never calls the API) again.
C4_OtentikasiMenghentikanPekerja ==
    [][\A w \in Pekerja :
          /\ \A j \in SkemaDipilih, r \in RentetanRespon(ResponModel),
                tulis_ok \in BOOLEAN, k \in 1..ULANG :
                (Iterasi(w, j, r, tulis_ok) /\ OtentikasiPada(r, k)) =>
                   /\ panggil_api_together(r, ULANG).permintaan = k
                   /\ panggil_api_together(r, ULANG).hasil = "raise"
                   /\ pc'[w] = "aborted"
                   /\ daftar_item'[w] = daftar_item[w]
                   /\ item_diproses'[w] = item_diproses[w]
                   /\ berkas'[w] = berkas[w]
          /\ pc[w] = "aborted" =>
                /\ pc'[w] = "aborted"
                /\ nomer_sesi'[w] = nomer_sesi[w]
                /\ daftar_item'[w] = daftar_item[w]]_vars

\* A worker has been aborted after it had accepted an item.
C4_Saksi ==
    \E w \in Pekerja :
       /\ pc[w] = "aborted"
       /\ Len(daftar_item[w]) > 0
       /\ Len(daftar_item[w]) < total_item(w)

BerhentiPekerja(w) == pc[w] \in {"done", "aborted", "raised"}

RECURSIVE JumlahDikumpul(_)
JumlahDikumpul(w) ==
    IF w = 0 THEN 0
    ELSE (IF w \in dikumpul /\ pc[w] # "raised" THEN Len(daftar_item[w]) ELSE 0)
         + JumlahDikumpul(w - 1)

\* What must hold in every state for C5.
C5_Keadaan ==
    /\ pc_utama \in {"mulai", "jalan", "gabung", "rampung"}
    /\ \A v \in Pekerja :
          pc[v] = "loop" =>
             ENABLED Iterasi(v, "strategi_scalping",
                             <<Respon(TeksKosong), Respon(TeksKosong), Respon(TeksKosong)>>,
                             TRUE)
    /\ \A w \in dikumpul : BerhentiPekerja(w)
    /\ Len(kabeh_data_akumulasi) = JumlahDikumpul(JUMLAH_PEKERJA)
    /\ \A w \in dikumpul :
          pc[w] # "raised" =>
             \A i \in 1..Len(daftar_item[w]) :
                \E k \in 1..Len(kabeh_data_akumulasi) :
                   kabeh_data_akumulasi[k] = daftar_item[w][i]
    /\ pc_utama = "jalan" =>
          /\ \A w \in IdTugas \ dikumpul : BerhentiPekerja(w) => ENABLED Kumpul(w)
          /\ IdTugas \subseteq dikumpul => ENABLED GenerasiRampung
    /\ pc_utama \in {"gabung", "rampung"} => IdTugas \subseteq dikumpul
    /\ pc_utama = "gabung" => UKURAN_DATASET > 0
    /\ (pc_utama = "rampung" /\ UKURAN_DATASET > 0) => Len(hasil_gabung) = 1

\* What must hold of every step for C5: the step in which a worker stops
\* through an error changes nothing of any other worker nor of utama.
C5_Langkah ==
    \A w \in Pekerja :
       (pc'[w] \in {"aborted", "raised"} /\ pc[w] # pc'[w]) =>
          /\ \A v \in Pekerja \ {w} :
                /\ pc'[v] = pc[v]
                /\ daftar_item'[v] = daftar_item[v]
                /\ item_diproses'[v] = item_diproses[v]
                /\ nomer_sesi'[v] = nomer_sesi[v]
                /\ berkas'[v] = berkas[v]
          /\ UNCHANGED vars_utama

\* C5: a worker stopped by the fatal error, or by an error it does not
\* handle, stops alone.  Its last step touches no sibling and nothing of
\* utama; whatever the others have done, a sibling at the head of its loop can
\* run its next session; utama can take the result of every worker that has
\* ended, holds exactly the records of the workers that returned once it has
\* taken them, is never ended by a worker's error, and once every worker is
\* collected it goes on to the merge, which it runs once.
C5_SaudaraTerusJalan == []C5_Keadaan /\ [][C5_Langkah]_vars

\* utama has finished with a non-empty Dataset although one worker was
\* aborted, while a sibling reached its quota.
C5_Saksi ==
    /\ pc_utama = "rampung"
    /\ Len(hasil_gabung) = 1
    /\ hasil_gabung[1].data # <<>>
    /\ \E v, w \in Pekerja :
          /\ pc[w] = "aborted"
          /\ pc[v] = "done"
          /\ kabeh_data_akumulasi = daftar_item[v]

\* C6: one call issues at most ulang requests; when every request of the call
\* meets an empty response or an error that is not an authentication error the
\* call returns None, raising nothing, after exactly ulang requests; and a
\* text the call returns is the non-blank text of the first request that met
\* neither an empty response nor an error.
C6_CobaTerbatas ==
    uji.selesai =>
       LET h == uji.hasil
           r == uji.respon
           u == uji.ulang
       IN  /\ h.permintaan \in 0..u
           /\ h.hasil \in {"teks", "None", "raise"}
           /\ (\A k \in 1..u : GagalBiasa(r[k])) =>
                 /\ h.hasil = "None"
                 /\ h.permintaan = u
           /\ h.hasil = "teks" =>
                 /\ h.permintaan \in 1..u
                 /\ r[h.permintaan].jenis = "respon"
                 /\ r[h.permintaan].teks.bentuk # "kosong"
                 /\ h.teks = r[h.permintaan].teks
                 /\ \A i \in 1..(h.permintaan - 1) : GagalBiasa(r[i])

\* A call of three attempts has returned the text of its third request after
\* an empty response and a time-out.
C6_Saksi ==
    /\ uji.selesai
    /\ uji.ulang = 3
    /\ uji.respon[1] = Respon(TeksKosong)
    /\ uji.respon[2] = Galat("Connection timed out")
    /\ uji.hasil.hasil = "teks"
    /\ uji.hasil.permintaan = 3

\* The items a run of the merger read, in the order it read them.
DibacaGabung(h) == baca_semua(h.file_json)

\* The positions of the items that carry a non-empty id.
BerId(K) == {i \in 1..Len(K) : K[i].dict /\ K[i].id \notin {IdTiada, IdKosong}}

\* C7: the Dataset a run of the merger returns holds exactly one record for
\* each non-empty id found in the files it read, holds no record without an
\* id, and the record it holds for an id is the last one with that id in the
\* order the files were enumerated and, within a file, in the array.
C7_SatuPerId ==
    \A n \in 1..Len(hasil_gabung) :
       LET h == hasil_gabung[n]
           K == DibacaGabung(h)
       IN  /\ \A i \in BerId(K) :
                 Cardinality({j \in 1..Len(h.data) : h.data[j].id = K[i].id}) = 1
           /\ \A j \in 1..Len(h.data) :
                 /\ h.data[j].dict
                 /\ h.data[j].id \notin {IdTiada, IdKosong}
                 /\ \E i \in BerId(K) :
                       /\ K[i] = h.data[j]
                       /\ \A l \in BerId(K) : K[l].id = K[i].id => l <= i

\* A run has merged two files that hold different records of one id into a
\* Dataset of one record.
C7_Saksi ==
    \E n \in 1..Len(hasil_gabung) :
       LET h == hasil_gabung[n]
           K == DibacaGabung(h)
       IN  /\ Len(h.file_json) >= 2
           /\ Len(h.data) = 1
           /\ \E i, l \in BerId(K) : i < l /\ K[i].id = K[l].id /\ K[i] # K[l]

IdData(data) == {data[j].id : j \in 1..Len(data)}

\* C8: when the merger has run twice over the same worker directories, the
\* two Datasets have the same size and the same set of ids, whatever the order
\* in which each run enumerated the files, the second run finding the first
\* run's artifact in the output directory.
C8_GabungIdempoten ==
    Len(hasil_gabung) >= 2 =>
       /\ Len(hasil_gabung[2].data) = Len(hasil_gabung[1].data)
       /\ IdData(hasil_gabung[2].data) = IdData(hasil_gabung[1].data)
       /\ hasil_gabung[2].jalur = hasil_gabung[1].jalur

\* Two runs, both of which wrote their artifact, have enumerated the files in
\* different orders and kept different records of a duplicated id.
C8_Saksi ==
    /\ Len(hasil_gabung) = 2
    /\ Len(artefak) = 2
    /\ hasil_gabung[1].file_json # hasil_gabung[2].file_json
    /\ hasil_gabung[1].data # <<>>
    /\ hasil_gabung[1].data # hasil_gabung[2].data

\* ceil(q / b)
JumlahBatch(q, b) == (q + b - 1) \div b

\* C9: in a run from an empty output directory with no fatal error, no failed
\* write and no id collision, a worker that has returned has written
\* ceil(q / B) files for its quota q, each of B records except the last, which
\* holds the rest; and the Dataset the merge returns holds UKURAN_DATASET
\* records with UKURAN_DATASET distinct ids.
C9_SkenarioA ==
    /\ \A w \in Pekerja :
          pc[w] = "done" =>
             LET q == total_item(w)
                 n == JumlahBatch(q, UKURAN_BATCH)
             IN  /\ Len(berkas[w]) = n
                 /\ \A i \in 1..n :
                       /\ berkas[w][i].konten.bentuk = "list"
                       /\ Len(berkas[w][i].konten.item) =
                             IF i < n THEN UKURAN_BATCH ELSE q - UKURAN_BATCH * (n - 1)
                       /\ Len(berkas[w][i].konten.item) \in 1..UKURAN_BATCH
    /\ pc_utama = "rampung" /\ UKURAN_DATASET > 0 =>
          /\ Len(hasil_gabung) = 1
          /\ Len(hasil_gabung[1].data) = UKURAN_DATASET
          /\ Cardinality(IdData(hasil_gabung[1].data)) = UKURAN_DATASET
          /\ artefak = <<[nama |-> "final",
                          konten |-> Konten("list", hasil_gabung[1].data)]>>

\* Quota 6 over 3 workers with batches of 2 has been run to its end: three
\* files of two records each and a Dataset of six ids, one worker having had a
\* failed session on its way.
C9_Saksi ==
    /\ UKURAN_DATASET = 6
    /\ JUMLAH_PEKERJA = 3
    /\ UKURAN_BATCH = 2
    /\ pc_utama = "rampung"
    /\ \A w \in Pekerja :
          /\ total_item(w) = 2
          /\ Len(berkas[w]) = 1
          /\ Len(berkas[w][1].konten.item) = 2
    /\ \E w \in Pekerja : nomer_sesi[w] > 2
    /\ Cardinality(IdData(hasil_gabung[1].data)) = 6

\* C10: in every run with a quota above zero all workers eventually stop and
\* the merger is eventually run to its end.
C10_SelaluRampung ==
    UKURAN_DATASET > 0 =>
       <>(/\ pc_utama = "rampung"
          /\ \A w \in Pekerja : pc[w] \in {"belum", "done", "aborted", "raised"}
          /\ hasil_gabung # <<>>)

\* ceil(0.7 * n)
AmbangCeil(n) == (7 * n + 9) \div 10

\* The columns of the schema uji.skema that uji.data holds with a value.
KolomTerisi(data) ==
    (IF data.id # IdTiada THEN 1 ELSE 0)
    + (IF data.winrate.ada /\ ~data.winrate.null THEN 1 ELSE 0)
    + data.lain

\* C11: validasi_data returns true if and only if the record is a non-empty
\* mapping, a schema of the given identifier exists, the record has a non-empty
\* id, at least max(2, ceil(0.7 n)) of the schema's n columns are present with
\* a value, and the winrate is absent, is not a number, or is at least 70.
C11_ValidasiIff ==
    uji.selesai =>
       (uji.hasil <=>
          /\ uji.data # ObjKosong
          /\ \E s \in uji.skema :
                /\ s.jenis = uji.jenis_skema
                /\ KolomTerisi(uji.data) >= Max(2, AmbangCeil(s.kolom))
          /\ uji.data.id \notin {IdTiada, IdKosong}
          /\ \/ ~uji.data.winrate.ada
             \/ ~uji.data.winrate.angka
             \/ uji.data.winrate.nilai >= 70)

\* C12: for every well-formed JSON object O and every leading and trailing
\* prose, braces in the prose included, ekstrak_json_saka_string of the three
\* put together returns O's keys and values with a non-empty id, O's own when
\* it has a non-empty one and a new one otherwise; it never returns None.
C12_BolakBalik ==
    uji.selesai =>
       /\ uji.hasil.hasil = "obj"
       /\ LET asli == json_loads(uji.O) IN
          /\ [uji.hasil.obj EXCEPT !.id = IdTiada] = [asli EXCEPT !.id = IdTiada]
          /\ uji.hasil.obj.id \notin {IdTiada, IdKosong}
          /\ asli.id \notin {IdTiada, IdKosong} => uji.hasil.obj.id = asli.id

\* A worker that is running or waiting to run.
PekerjaJalan(w) == pc[w] \in {"antri", "loop"}

\* gabung_file_data has been called (it is about to list the files, or has returned).
GabungMulai == pc_utama \in {"gabung", "rampung"}

\* C13: the merger starts only after every started worker has stopped: once
\* gabung_file_data has been called no worker is running, and no step taken
\* from then on changes a worker's position, accumulator, counter or files,
\* with a pool of workers as with the single inline worker.
C13_GabungSawisePekerja ==
    /\ [](GabungMulai => \A w \in DOMAIN pc : ~PekerjaJalan(w))
    /\ [][GabungMulai => UNCHANGED vars_pekerja]_vars

C13_Saksi ==
    /\ pc_utama = "rampung"
    /\ Len(tugas_pekerja) = 2
    /\ Len(hasil_gabung) >= 1
    /\ \A w \in IdTugas : berkas[w] # <<>>
    /\ Len(hasil_gabung[1].file_json) >= 2

\* What worker w owns: its accumulator, its counter and its directory.
MilikPekerja(w) == <<daftar_item[w], item_diproses[w], berkas[w]>>

\* C14: no two workers write the same path: the ids utama hands out are
\* pairwise distinct, every record in a file of directory pekerja_i was made
\* by worker i, and a step changes the accumulator, counter or directory of
\* at most the one worker whose loop took the step.
C14_TanpaRebutan ==
    /\ [](\A k, l \in 1..Len(tugas_pekerja) :
             tugas_pekerja[k][1] = tugas_pekerja[l][1] => k = l)
    /\ [](\A d \in DOMAIN berkas : \A i \in 1..Len(berkas[d]) :
             \A n \in 1..Len(berkas[d][i].konten.item) :
                berkas[d][i].konten.item[n].tanggal_dibuat[1] = d)
    /\ [][\A v \in DOMAIN pc :
             MilikPekerja(v)' # MilikPekerja(v) =>
                /\ nomer_sesi'[v] = nomer_sesi[v] + 1
                /\ \A u \in DOMAIN pc \ {v} :
                      /\ MilikPekerja(u)' = MilikPekerja(u)
                      /\ nomer_sesi'[u] = nomer_sesi[u]
                      /\ pc'[u] = pc[u]]_vars

C14_Saksi ==
    /\ pc_utama = "jalan"
    /\ Len(tugas_pekerja) = 2
    /\ \A w \in IdTugas : berkas[w] # <<>> /\ daftar_item[w] # <<>>

\* The places of the records on disk: <<d, i, n>> is the n-th record of the
\* i-th file of directory pekerja_<d>.
TempatDisk ==
    UNION {UNION {{<<d, i, n>> : n \in 1..Len(berkas[d][i].konten.item)} :
                     i \in 1..Len(berkas[d])} : d \in DOMAIN berkas}

DiDisk(t) == berkas[t[1]][t[2]].konten.item[t[3]]

\* C15: every record written to a batch file has a non-empty id, and no two
\* records persisted during one run, within a batch or across batches and
\* workers, share an id, whatever the model returns, an id it has returned
\* before included.
C15_IdUnikDiDisk ==
    /\ \A t \in TempatDisk : DiDisk(t).id \notin {IdTiada, IdKosong}
    /\ \A t, u \in TempatDisk : DiDisk(t).id = DiDisk(u).id => t = u

\* The file a successful flush of worker w adds in this step: the records
\* accepted since the last successful flush, under the session's name.
BerkasAnyar(w) ==
    LET daftar == daftar_item'[w]
        diproses == item_diproses[w] + 1
    IN  [nama |-> nomer_sesi'[w],
         konten |-> Konten("list", SubSeq(daftar, Len(daftar) - diproses + 1, Len(daftar)))]

\* This step of worker w accepted an item.
Ditampa(w) == Len(daftar_item'[w]) = Len(daftar_item[w]) + 1

\* C16 as stated: whenever an accepted item makes the counter reach the batch
\* size or the accumulator reach the quota, the worker flushes all records
\* accepted since the previous checkpoint to one new file and the counter is
\* then 0; on any other iteration no flush is attempted.
C16_PemicuAsli ==
    [][\A j \in SkemaDipilih, r \in RentetanRespon(ResponA), tulis_ok \in BOOLEAN :
          Iterasi(1, j, r, tulis_ok) /\ Ditampa(1) =>
             IF \/ item_diproses[1] + 1 = UKURAN_BATCH
                \/ Len(daftar_item'[1]) = total_item(1)
             THEN /\ berkas'[1] = Append(berkas[1], BerkasAnyar(1))
                  /\ item_diproses'[1] = 0
             ELSE /\ berkas'[1] = berkas[1]
                  /\ item_diproses'[1] = item_diproses[1] + 1]_vars

\* C16 as amended: whenever an accepted item makes the counter reach a positive
\* multiple of the batch size or the accumulator reach the quota, the worker
\* attempts to flush all records accepted since the last successful flush to
\* one new file; when the write succeeds the file is added and the counter is
\* then 0, when it fails files and counter stay; on any other iteration no
\* flush is attempted.
C16_Pemicu ==
    [][\A j \in SkemaDipilih, r \in RentetanRespon(ResponA), tulis_ok \in BOOLEAN :
          Iterasi(1, j, r, tulis_ok) /\ Ditampa(1) =>
             IF /\ \/ (item_diproses[1] + 1) % UKURAN_BATCH = 0
                   \/ Len(daftar_item'[1]) = total_item(1)
                /\ tulis_ok
             THEN /\ berkas'[1] = Append(berkas[1], BerkasAnyar(1))
                  /\ item_diproses'[1] = 0
             ELSE /\ berkas'[1] = berkas[1]
                  /\ item_diproses'[1] = item_diproses[1] + 1]_vars

\* After a failed write at the batch size, a later flush has written the
\* records of two batches into one file, and the worker went on to its quota.
C16_Saksi ==
    /\ UKURAN_BATCH = 2
    /\ Len(daftar_item[1]) = 5
    /\ Len(berkas[1]) = 2
    /\ Len(berkas[1][1].konten.item) = 4

\* s is a prefix of t.
Awalan(s, t) == Len(s) <= Len(t) /\ SubSeq(t, 1, Len(s)) = s

\* C17: when a checkpoint write fails the worker does not stop: the step
\* leaves the batch's records in the accumulator and the worker in its loop
\* (or returned, the quota met); no step shortens an accumulator; a worker
\* returns with as many records as its quota whatever was written; and what
\* utama collects from a worker that returned is its whole accumulator.
C17_GagalSimpenTerus ==
    /\ [][\A j \in SkemaDipilih, r \in RentetanRespon(ResponA) :
             (/\ Iterasi(1, j, r, FALSE)
              /\ Ditampa(1)
              /\ perlu_checkpoint(item_diproses[1] + 1, Len(daftar_item'[1]),
                                  total_item(1), UKURAN_BATCH))
             => /\ pc'[1] = IF Len(daftar_item'[1]) < total_item(1) THEN "loop" ELSE "done"
                /\ Awalan(daftar_item[1], daftar_item'[1])
                /\ berkas'[1] = berkas[1]]_vars
    /\ [][\A w \in DOMAIN daftar_item : Awalan(daftar_item[w], daftar_item'[w])]_vars
    /\ [](\A w \in DOMAIN pc : pc[w] = "done" => Len(daftar_item[w]) = total_item(w))
    /\ [][\A w \in DOMAIN pc :
             (w \in dikumpul' \ dikumpul /\ pc[w] = "done")
             => kabeh_data_akumulasi' = kabeh_data_akumulasi \o daftar_item[w]]_vars

\* Every write of a worker with a quota of three failed; it returned its
\* three records and utama holds them.
C17_Saksi ==
    /\ total_item(1) = 3
    /\ pc[1] = "done"
    /\ berkas[1] = <<>>
    /\ 1 \in dikumpul
    /\ Len(kabeh_data_akumulasi) = 3
    /\ kabeh_data_akumulasi = daftar_item[1]

\* The base delay the claim gives for what the k-th request met.
JedaDasar(r) == IF r.jenis = "respon" THEN 5 ELSE 10

\* C18: within one call of panggil_api_together the k-th failed attempt that
\* is followed by another is followed by a wait of k times the base delay, 5
\* for an empty response and 10 for an error that is not an authentication
\* error, so the waits of one kind grow strictly; there are as many waits as
\* requests but one, so none follows the last attempt and none precedes the
\* raising of an authentication error.
C18_JedaNaik ==
    uji.selesai =>
       LET h == uji.hasil
           n == h.permintaan
       IN  /\ n <= uji.ulang
           /\ Len(h.tunggu) = IF n = 0 THEN 0 ELSE n - 1
           /\ \A k \in 1..Len(h.tunggu) :
                 /\ k <= uji.ulang - 1
                 /\ \/ uji.respon[k].jenis = "respon" /\ uji.respon[k].teks.bentuk = "kosong"
                    \/ uji.respon[k].jenis = "galat" /\ uji.respon[k].pesan \notin PesanOtentikasi
                 /\ h.tunggu[k] = k * JedaDasar(uji.respon[k])
           /\ \A k, l \in 1..Len(h.tunggu) :
                 (k < l /\ uji.respon[k].jenis = uji.respon[l].jenis)
                 => h.tunggu[k] < h.tunggu[l]
           /\ h.hasil = "raise" =>
                 /\ uji.respon[n].jenis = "galat"
                 /\ uji.respon[n].pesan \in PesanOtentikasi

\* An empty response, then a timeout, then an authentication error: waits of
\* 5 and 20, and the error raised with no third wait.
C18_Saksi ==
    /\ uji.selesai
    /\ uji.ulang = 3
    /\ uji.hasil.tunggu = <<5, 20>>
    /\ uji.hasil.hasil = "raise"

\* C19: every accepted record carries the creation timestamp, the status
\* 'belum_diverifikasi' and, as its 'jenis', the identifier of the schema that
\* was chosen for its prompt and used to validate it, whatever fields the
\* model's object had, a 'jenis' or a 'status_verifikasi' of its own included.
C19_JenisSkemaTertanam ==
    (uji.selesai /\ uji.hasil.hasil = "item") =>
       /\ uji.hasil.item.tanggal_dibuat = <<1, 1>>
       /\ uji.hasil.item.status_verifikasi = "belum_diverifikasi"
       /\ uji.hasil.item.jenis = uji.jenis_skema

\* The records of worker w's files, one file after the other in the order
\* the files were written.
IsiDisk(w) == Gabungan([i \in 1..Len(berkas[w]) |-> berkas[w][i].konten.item])

\* C20: in every state, failed writes or not, the records in a worker's files,
\* in write order, are the first len(accumulator) - counter records of its
\* accumulator; so no record is on disk twice, in one file or in two, and a
\* step that adds a file brings every record accepted so far onto the disk,
\* those a failed write left behind included.
C20_DiskAwalanAkumulator ==
    /\ [](\A w \in DOMAIN berkas :
             /\ item_diproses[w] <= Len(daftar_item[w])
             /\ IsiDisk(w) = SubSeq(daftar_item[w], 1, Len(daftar_item[w]) - item_diproses[w])
             /\ \A m, n \in 1..Len(IsiDisk(w)) : IsiDisk(w)[m] = IsiDisk(w)[n] => m = n)
    /\ [][\A w \in DOMAIN berkas :
             berkas'[w] # berkas[w] =>
                /\ Len(berkas'[w]) = Len(berkas[w]) + 1
                /\ SubSeq(berkas'[w], 1, Len(berkas[w])) = berkas[w]
                /\ berkas'[w][Len(berkas'[w])].konten.item =
                      SubSeq(daftar_item'[w], Len(IsiDisk(w)) + 1, Len(daftar_item'[w]))]_vars

\* Two writes failed, at the batch size and at twice the batch size; the
\* write at the quota then brought all five records into the one file.
C20_Saksi ==
    /\ UKURAN_BATCH = 2
    /\ pc[1] = "done"
    /\ Len(berkas[1]) = 1
    /\ Len(berkas[1][1].konten.item) = 5
    /\ IsiDisk(1) = daftar_item[1]

\* The records worker w has accepted and that are in none of its files.
DurungDisimpen(w) == Len(daftar_item[w]) - Len(IsiDisk(w))

====
